---- MODULE Spec2Model ----
(***************************************************************************)
(* Model of udp-csv-server (src/src/main.rs): the UDP ingestion loop, the  *)
(* Ctrl-C handler that saves the table, the table serializer, and the      *)
(* offline aggregation of a saved table (the "aggregate" mode of main).    *)
(*                                                                         *)
(* Text (a datagram, the bytes of a file) is modelled as a sequence of     *)
(* tokens: a token is ",", a whitespace character (blank, tab, newline,     *)
(* carriage return), or a piece of text holding neither (a numeric         *)
(* literal, the text of a cell).  An f64                                   *)
(* is modelled exactly, as a reduced fraction [n, d]; an Option is <<>>    *)
(* (None) or <<v>> (Some(v)).                                              *)
(***************************************************************************)
EXTENDS Integers, Sequences, FiniteSets, TLC

VARIABLES
    line,         \* main.rs:222  the device declaration read from stdin, as id:name entries
    device_map,   \* main.rs:225  id -> [name, col]  (col is the 0-based column offset)
    output_csv,   \* main.rs:233  the table behind the Mutex: a sequence of columns of cells
    mutex,        \* who holds the Mutex: "free", "main" or "handler"
    poisoned,     \* the Mutex's poison flag (a holder panicked)
    quit,         \* main.rs:248  AtomicBool
    chan,         \* main.rs:249  messages buffered in the mpsc channel
    txAlive,      \* the Sender (owned by the handler closure) has not been dropped
    sock,         \* datagrams queued in the UDP socket, oldest first
    arrived,      \* number of datagrams that reached the socket so far
    mainPc,       \* position of the main thread
    batch,        \* main.rs:265  the SensorBatch being appended
    sensor_i,     \* main.rs:270  index of the next reading of batch to append
    lastErr,      \* kind of the last Err returned by get_next_data, "" when none
    abortCause,   \* why the main thread panicked, "" when it did not
    hPc,          \* position of the Ctrl-C handler thread
    sigPending,   \* signals delivered and not yet taken by the handler thread
    sigCount,     \* number of signals delivered so far
    file,         \* contents of output.csv, <<>> when it is empty or was never created
    saved,        \* the table passed to the last completed save_file call
    saves,        \* number of completed save_file calls
    log,          \* per parsed datagram: its batch, how many datagrams were dropped before
                  \* it, and per reading appended its column, its row and the number of
                  \* saves completed before
    dropped,      \* the number of datagrams for which parse_sensor_batch returned None,
                  \* and whether the last of them was well-formed
    waitedFor,    \* while the handler thread is at the lock() of main.rs:252: the number
                  \* of batches for which main has held the Mutex since it got there;
                  \* 0 otherwise
    aggPc,        \* position of aggregate(), "off" when the process runs the ingestion
    contents,     \* main.rs:97   the text aggregate read from output.csv, <<>> before the read
    aggCsv,       \* main.rs:99   csv, the columns of non-empty cells of the table read
    smallest_time_range_i5th,  \* main.rs:117  the reference device block, 0-based
    target_csv,   \* main.rs:128  the output columns of f64
    row_target,   \* main.rs:136  the reference row being processed, 0-based
    counted_in,   \* the (row_target, column_i5th, row_i) the scans of main.rs:159-171 counted
    aggregated    \* output_aggregated.csv: <<>> when it does not exist, <<bytes>> when it does

aggVars == <<aggPc, contents, aggCsv, smallest_time_range_i5th, target_csv,
             row_target, counted_in, aggregated>>

vars == <<line, aggVars, waitedFor, dropped, device_map, output_csv, mutex, poisoned, quit, chan, txAlive, sock,
          arrived, mainPc, batch, sensor_i, lastErr, abortCause, hPc,
          sigPending, sigCount, file, saved, saves, log>>

(***************************************************************************)
(* Bounds of the model.                                                    *)
(***************************************************************************)
MaxDatagrams == 2
MaxSignals == 2
\* The generated input tables of aggregate hold up to MaxRows data rows, all
\* their device blocks together.
MaxRows == 5
\* A write of output.csv that fails in the ingestion has written at most
\* MaxWritten whole tokens of the table, and possibly a part of the token that
\* follows them.  (The main thread runs on after such a failure, so each place
\* where the write may stop multiplies the rest of the run; a failing write of
\* aggregate() ends the process and may stop anywhere.)
MaxWritten == 0

(***************************************************************************)
(* Helpers on sequences.                                                   *)
(***************************************************************************)
Range(s) == { s[i] : i \in DOMAIN s }

RECURSIVE Concat(_)
Concat(ss) == IF ss = <<>> THEN <<>> ELSE Head(ss) \o Concat(Tail(ss))

(***************************************************************************)
(* f64 values and their text.                                              *)
(***************************************************************************)
R(n, d) == [n |-> n, d |-> d]

\* str::parse::<f64>: the literals the model uses and the value of each.
F64Lit ==
    ("0" :> R(0, 1)) @@ ("1" :> R(1, 1)) @@ ("1.0" :> R(1, 1)) @@
    ("2" :> R(2, 1)) @@ ("0.5" :> R(1, 2)) @@ ("1.5" :> R(3, 2)) @@
    ("3" :> R(3, 1)) @@ ("4" :> R(4, 1)) @@ ("9" :> R(9, 1)) @@
    ("10" :> R(10, 1)) @@ ("11" :> R(11, 1)) @@ ("20" :> R(20, 1)) @@
    ("30" :> R(30, 1))

\* str::parse::<u8>: the literals of the model that are integers of 0..255,
\* and the value of each; "1.0", "0.5" and "1.5" are no u8.
U8Lit ==
    ("0" :> 0) @@ ("1" :> 1) @@ ("2" :> 2) @@ ("3" :> 3) @@ ("4" :> 4) @@
    ("9" :> 9) @@ ("10" :> 10) @@ ("11" :> 11) @@ ("20" :> 20) @@ ("30" :> 30)

\* str::parse::<f64>(s): s must be exactly one literal (no whitespace, not empty).
ParseF64(s) ==
    IF Len(s) = 1 /\ s[1] \in DOMAIN F64Lit THEN <<F64Lit[s[1]]>> ELSE <<>>

ParseU8(s) ==
    IF Len(s) = 1 /\ s[1] \in DOMAIN U8Lit THEN <<U8Lit[s[1]]>> ELSE <<>>

\* format!("{}", v) of an f64: the shortest text that reads back as v.  The
\* values of the model are not negative and have finite decimal expansions
\* of up to three digits, which are these texts.
Pow10(k) == IF k = 1 THEN 10 ELSE IF k = 2 THEN 100 ELSE 1000

FormatF64(v) ==
    IF v.d = 1 THEN ToString(v.n)
    ELSE LET k == CHOOSE k \in 1..3 :
                      /\ Pow10(k) % v.d = 0
                      /\ \A j \in 1..(k - 1) : Pow10(j) % v.d # 0
             frac == ((v.n % v.d) * Pow10(k)) \div v.d
         IN  ToString(v.n \div v.d) \o "."
             \o (IF k = 3 /\ frac < 100 THEN "0" ELSE "")
             \o (IF k >= 2 /\ frac < 10 THEN "0" ELSE "")
             \o ToString(frac)

\* f64 arithmetic and comparison, exact on the values of the model.
RECURSIVE GCD(_, _)
GCD(a, b) == IF b = 0 THEN a ELSE GCD(b, a % b)

Norm(n, d) ==
    LET g == GCD(IF n < 0 THEN -n ELSE n, d) IN R(n \div g, d \div g)

FAdd(a, b) == Norm(a.n * b.d + b.n * a.d, a.d * b.d)
FSub(a, b) == Norm(a.n * b.d - b.n * a.d, a.d * b.d)
\* a / (k as f64)
FDiv(a, k) == Norm(a.n, a.d * k)
FLt(a, b) == a.n * b.d < b.n * a.d
FLe(a, b) == a.n * b.d <= b.n * a.d

\* The tokens that are whitespace (char::is_whitespace): blank, tab, newline,
\* carriage return.
White == {" ", "\t", "\n", "\r"}

\* str::trim: leading and trailing whitespace removed.
RECURSIVE TrimStart(_)
TrimStart(s) ==
    IF s # <<>> /\ Head(s) \in White THEN TrimStart(Tail(s)) ELSE s

RECURSIVE TrimEnd(_)
TrimEnd(s) ==
    IF s # <<>> /\ s[Len(s)] \in White THEN TrimEnd(SubSeq(s, 1, Len(s) - 1)) ELSE s

Trim(s) == TrimEnd(TrimStart(s))

\* str::split(sep): the pieces between the separators, at least one piece.
RECURSIVE SplitFrom(_, _, _)
SplitFrom(s, sep, cur) ==
    IF s = <<>> THEN <<cur>>
    ELSE IF Head(s) = sep THEN <<cur>> \o SplitFrom(Tail(s), sep, <<>>)
    ELSE SplitFrom(Tail(s), sep, Append(cur, Head(s)))

Split(s, sep) == SplitFrom(s, sep, <<>>)

(***************************************************************************)
(* Reading parser.                                                         *)
(***************************************************************************)
parse_sensordata(parts) ==
    LET sensor == ParseU8(Trim(parts[1]))
        x == ParseF64(Trim(parts[2]))
        y == ParseF64(Trim(parts[3]))
        z == ParseF64(Trim(parts[4]))
    IN  IF sensor = <<>> \/ x = <<>> \/ y = <<>> \/ z = <<>> THEN <<>>
        ELSE <<[sensor |-> sensor[1], x |-> x[1], y |-> y[1], z |-> z[1]]>>

RECURSIVE ParseSensors_Partial(_, _, _)
\* ParseSensors that keeps the readings parsed before the one that fails.
ParseSensors_Partial(parts, i, acc) ==
    IF i >= (Len(parts) - 1) \div 4 THEN <<acc>>
    ELSE LET sd == parse_sensordata(SubSeq(parts, i * 4 + 2, (i + 1) * 4 + 1))
         IN  IF sd = <<>> THEN <<acc>>
             ELSE ParseSensors_Partial(parts, i + 1, Append(acc, sd[1]))

RECURSIVE ParseSensors(_, _, _)
\* The loop of main.rs:52-55: None as soon as one reading fails.
ParseSensors(parts, i, acc) ==
    IF i >= (Len(parts) - 1) \div 4 THEN <<acc>>
    ELSE LET sd == parse_sensordata(SubSeq(parts, i * 4 + 2, (i + 1) * 4 + 1))
         IN  IF sd = <<>> THEN <<>> ELSE ParseSensors(parts, i + 1, Append(acc, sd[1]))

parse_sensor_batch(total) ==
    LET parts == Split(total, ",")
        time == ParseF64(parts[1])
    IN  IF time = <<>> THEN <<>>
        ELSE IF (Len(parts) - 1) % 4 # 0 THEN <<>>
        ELSE LET sensors == ParseSensors(parts, 0, <<>>)
             IN  IF sensors = <<>> THEN <<>>
                 ELSE <<[sensors |-> sensors[1], timestamp |-> time[1]]>>

(***************************************************************************)
(* Table serializer.                                                       *)
(***************************************************************************)
\* str::as_bytes of a cell: the empty cell contributes no byte.
CellBytes(cell) == IF cell = "" THEN <<>> ELSE <<cell>>

\* main.rs:81-89, the cells of one row (row is 1-based here, 0-based there).
SaveRow(csv, row) ==
    Concat([column \in 1..Len(csv) |->
                IF row > Len(csv[column]) THEN <<",">>
                ELSE CellBytes(csv[column][row]) \o <<",">>])

\* main.rs:78-94, the bytes handed to fs::write.
save_file(csv) ==
    Concat([row \in 1..Len(csv[1]) |-> SaveRow(csv, row) \o <<"\n">>])

\* The tokens of a single byte; every other token has several bytes.
OneByte == {",", "\n", " ", "\t", "\r", "x"} \cup { ToString(i) : i \in 0..9 }

\* Stands in a file for a token of which a part of the bytes, not all, was
\* written.
Cut == "(cut)"

\* fs::write (main.rs:93, 206) after the open: what the file holds when n
\* tokens of bytes went out and, with cut, a part of the token that follows
\* them.  The write succeeded when n is the length of bytes, and failed
\* otherwise: the bytes that went out before the failure stay in the file.
CanWrite(bytes, n, cut) ==
    /\ n \in 0..Len(bytes)
    /\ cut => (n < Len(bytes) /\ bytes[n + 1] \notin OneByte)

Written(bytes, n, cut) ==
    IF cut THEN Append(SubSeq(bytes, 1, n), Cut) ELSE SubSeq(bytes, 1, n)

\* The numbers of whole tokens a write may have written when it returns: all
\* of them when it succeeded, any smaller number when it failed.
WritePoints(bytes) == 0..Len(bytes)

(***************************************************************************)
(* Device registry and the initial table.                                  *)
(***************************************************************************)
\* main.rs:225-231: later declarations of an id replace earlier ones.
InsertAll(decl) ==
    [num \in { decl[i].num : i \in DOMAIN decl } |->
        LET last == CHOOSE i \in DOMAIN decl :
                        /\ decl[i].num = num
                        /\ \A j \in DOMAIN decl : decl[j].num = num => j <= i
        IN  [name |-> decl[last].name, col |-> 0]]

\* main.rs:237-241: the five header cells of one device.
HeaderBlock(num, name) ==
    << <<"Time (s)">>,
       <<name \o ": X (" \o ToString(num) \o ")">>,
       <<name \o ": Y (" \o ToString(num) \o ")">>,
       <<name \o ": Z (" \o ToString(num) \o ")">>,
       <<"">> >>

\* main.rs:235-244: order is the order in which the HashMap is iterated.
AssignColumns(map, order) ==
    [num \in DOMAIN map |->
        LET k == CHOOSE i \in DOMAIN order : order[i] = num
        IN  [name |-> map[num].name, col |-> 5 * (k - 1)]]

InitialCsv(map, order) ==
    Concat([k \in 1..Len(order) |-> HeaderBlock(order[k], map[order[k]].name)])

\* The iteration orders a HashMap with these keys can have.
Orders(keys) ==
    { o \in [1..Cardinality(keys) -> keys] : Range(o) = keys }

(***************************************************************************)
(* Inputs of the model: operator declarations and datagrams.               *)
(***************************************************************************)
D(num, name) == [num |-> num, name |-> name]

\* The declarations the operator enters, in the order of entry.
DeclSet == { <<D(1, "a")>>, <<D(1, "a"), D(2, "b")>> }

RECURSIVE Join(_)
Join(fields) ==
    IF Len(fields) = 1 THEN fields[1]
    ELSE fields[1] \o <<",">> \o Join(Tail(fields))

PayloadSet ==
    { Join(<< <<"1">>, <<"1">>, <<"1">>, <<"2">>, <<"0.5">> >>),
      Join(<< <<"1.5">>, <<" ", "2">>, <<"1.0", " ">>, <<" ", "0.5", " ">>, <<"0", "\n">> >>),
      Join(<< <<"2">>, <<"1">>, <<"3">>, <<"3">>, <<"3">>,
                       <<"2">>, <<"2">>, <<"2">>, <<"2">> >>),
      Join(<< <<"3">>, <<"1">>, <<"1.5">>, <<"1.5">>, <<"1.5">>,
                       <<"3">>, <<"0">>, <<"0">>, <<"0">> >>),
      Join(<< <<"1">>, <<"1">>, <<"1">>, <<"2">> >>),
      Join(<< <<" ", "1">>, <<"1">>, <<"1">>, <<"1">>, <<"1">> >>),
      Join(<< <<"2">>, <<"1">>, <<"3">>, <<"3">>, <<"3">>,
                       <<"2">>, <<"x">>, <<"2">>, <<"2">> >>),
      Join(<< <<"x">>, <<"1">>, <<"1">>, <<"1">>, <<"1">> >>) }

(***************************************************************************)
(* The state at main.rs:259, before the ingestion loop starts.             *)
(***************************************************************************)
\* aggregate() is not called when the process runs the ingestion (main.rs:211).
AggOff ==
    /\ aggPc = "off"
    /\ contents = <<>>
    /\ aggCsv = <<>>
    /\ smallest_time_range_i5th = 0
    /\ target_csv = <<>>
    /\ row_target = 0
    /\ counted_in = {}
    /\ aggregated = <<>>

Init ==
    /\ \E decl \in DeclSet :
         \E order \in Orders(DOMAIN InsertAll(decl)) :
            /\ line = decl
            /\ device_map = AssignColumns(InsertAll(decl), order)
            /\ output_csv = InitialCsv(InsertAll(decl), order)
    /\ AggOff
    /\ mutex = "free"
    /\ poisoned = FALSE
    /\ quit = FALSE
    /\ chan = 0
    /\ txAlive = TRUE
    /\ sock = <<>>
    /\ arrived = 0
    /\ mainPc = "check"
    /\ batch = [sensors |-> <<>>, timestamp |-> R(0, 1)]
    /\ sensor_i = 1
    /\ lastErr = ""
    /\ abortCause = ""
    /\ hPc = "idle"
    /\ sigPending = 0
    /\ sigCount = 0
    /\ file = <<>>
    /\ saved = <<>>
    /\ saves = 0
    /\ log = <<>>
    /\ dropped = [n |-> 0, wellFormed |-> FALSE]
    /\ waitedFor = 0

\* The process exists: main has neither returned nor finished panicking.
Alive == mainPc \notin {"exited", "panicked"}

(***************************************************************************)
(* Environment.                                                            *)
(***************************************************************************)
\* A datagram reaches the socket.
Arrive(p) ==
    /\ Alive
    /\ arrived < MaxDatagrams
    /\ sock' = Append(sock, p)
    /\ arrived' = arrived + 1
    /\ UNCHANGED <<waitedFor, dropped, device_map, output_csv, mutex, poisoned, quit, chan, txAlive,
                   mainPc, batch, sensor_i, lastErr, abortCause, hPc,
                   sigPending, sigCount, file, saved, saves, log>>

\* An interrupt signal is delivered to the process.
Signal ==
    /\ Alive
    /\ sigCount < MaxSignals
    /\ sigCount' = sigCount + 1
    /\ sigPending' = sigPending + 1
    /\ UNCHANGED <<waitedFor, dropped, device_map, output_csv, mutex, poisoned, quit, chan, txAlive,
                   sock, arrived, mainPc, batch, sensor_i, lastErr, abortCause,
                   hPc, file, saved, saves, log>>

(***************************************************************************)
(* Main thread: the ingestion loop, main.rs:260-281.                       *)
(***************************************************************************)
\* The payloads of the form timestamp,device_id,x,y,z[,device_id,x,y,z]...
\* where every field may carry surrounding whitespace.
WellFormedPayload(p) ==
    LET parts == Split(p, ",")
    IN  /\ (Len(parts) - 1) % 4 = 0
        /\ ParseF64(Trim(parts[1])) # <<>>
        /\ \A i \in 2..Len(parts) :
               IF (i - 2) % 4 = 0 THEN ParseU8(Trim(parts[i])) # <<>>
               ELSE ParseF64(Trim(parts[i])) # <<>>

WellFormed == { p \in PayloadSet : WellFormedPayload(p) }

\* parse_sensor_batch on each datagram of the model, evaluated once.
Parsed == [p \in PayloadSet |-> parse_sensor_batch(p)]

\* main.rs:60-76.  recv is what socket.recv returned: [ok, buf] or [ok, kind].
get_next_data(recv) ==
    IF recv.ok THEN [ok |-> TRUE, val |-> Parsed[recv.buf]]
    ELSE IF recv.kind = "Interrupted" THEN [ok |-> FALSE, kind |-> recv.kind]
    ELSE [ok |-> FALSE, kind |-> recv.kind]

\* PushReading with sensor_data.x pushed on the Y column too.
PushReading_XTwice(csv, column, timestamp, sd) ==
    [c \in 1..Len(csv) |->
        IF c = column + 1 THEN Append(csv[c], FormatF64(timestamp))
        ELSE IF c = column + 2 THEN Append(csv[c], FormatF64(sd.x))
        ELSE IF c = column + 3 THEN Append(csv[c], FormatF64(sd.x))
        ELSE IF c = column + 4 THEN Append(csv[c], FormatF64(sd.z))
        ELSE csv[c]]

\* main.rs:275-278: one reading pushed on the four columns of its device.
PushReading(csv, column, timestamp, sd) ==
    [c \in 1..Len(csv) |->
        IF c = column + 1 THEN Append(csv[c], FormatF64(timestamp))
        ELSE IF c = column + 2 THEN Append(csv[c], FormatF64(sd.x))
        ELSE IF c = column + 3 THEN Append(csv[c], FormatF64(sd.y))
        ELSE IF c = column + 4 THEN Append(csv[c], FormatF64(sd.z))
        ELSE csv[c]]

\* main.rs:260: while !quit.load(..)
MainCheckQuit ==
    /\ mainPc = "check"
    /\ mainPc' = IF quit THEN "wait" ELSE "recv"
    /\ UNCHANGED <<waitedFor, dropped, device_map, output_csv, mutex, poisoned, quit, chan, txAlive,
                   sock, arrived, batch, sensor_i, lastErr, abortCause, hPc,
                   sigPending, sigCount, file, saved, saves, log>>

\* main.rs:261-267 with recv returning the oldest queued datagram; it blocks
\* while the queue is empty (the read timeout of main.rs:217-219 is commented out).
MainRecvOk ==
    /\ mainPc = "recv"
    /\ sock # <<>>
    /\ LET res == get_next_data([ok |-> TRUE, buf |-> Head(sock)])
       IN  IF res.val = <<>>
           THEN /\ mainPc' = "check"
                /\ dropped' = [n |-> dropped.n + 1,
                                wellFormed |-> Head(sock) \in WellFormed]
                /\ UNCHANGED <<batch, log>>
           ELSE /\ mainPc' = "lock"
                /\ batch' = res.val[1]
                /\ log' = Append(log, [batch |-> res.val[1], pos |-> <<>>,
                                       after |-> dropped.n])
                /\ UNCHANGED dropped
    /\ sock' = Tail(sock)
    /\ UNCHANGED <<waitedFor, device_map, output_csv, mutex, poisoned, quit, chan, txAlive,
                   arrived, sensor_i, lastErr, abortCause, hPc, sigPending,
                   sigCount, file, saved, saves>>

\* main.rs:261-264 with recv failing: Err(_) => break, whatever the kind.
MainRecvErr(kind) ==
    /\ mainPc = "recv"
    /\ LET res == get_next_data([ok |-> FALSE, kind |-> kind])
       IN  /\ ~res.ok
           /\ lastErr' = res.kind
           /\ mainPc' = "wait"
    /\ UNCHANGED <<waitedFor, dropped, device_map, output_csv, mutex, poisoned, quit, chan, txAlive,
                   sock, arrived, batch, sensor_i, abortCause, hPc, sigPending,
                   sigCount, file, saved, saves, log>>

\* main.rs:268: lock().unwrap() blocks while the Mutex is held and panics
\* when it is poisoned.  A std Mutex has no queue of waiters: main gets a free
\* lock also when the handler thread is at its lock() already.
MainLock ==
    /\ mainPc = "lock"
    /\ mutex = "free"
    /\ IF poisoned
       THEN /\ mainPc' = "unwinding"
            /\ abortCause' = "poisoned"
            /\ UNCHANGED <<mutex, sensor_i, waitedFor>>
       ELSE /\ mutex' = "main"
            /\ sensor_i' = 1
            /\ mainPc' = "append"
            /\ waitedFor' = IF hPc = "lock" THEN waitedFor + 1 ELSE waitedFor
            /\ UNCHANGED abortCause
    /\ UNCHANGED <<dropped, device_map, output_csv, poisoned, quit, chan, txAlive, sock,
                   arrived, batch, lastErr, hPc, sigPending, sigCount, file,
                   saved, saves, log>>

\* main.rs:270-279, one turn of the for loop: the lookup panics on an id that
\* was not declared, and the unwinding drops the guard, poisoning the Mutex.
MainAppend ==
    /\ mainPc = "append"
    /\ sensor_i <= Len(batch.sensors)
    /\ LET sensor_data == batch.sensors[sensor_i]
       IN  IF sensor_data.sensor \notin DOMAIN device_map
           THEN /\ mainPc' = "unwinding"
                /\ abortCause' = "undeclared"
                /\ poisoned' = TRUE
                /\ mutex' = "free"
                /\ UNCHANGED <<output_csv, sensor_i, log>>
           ELSE LET column == device_map[sensor_data.sensor].col
                IN  /\ output_csv' =
                           PushReading(output_csv, column, batch.timestamp, sensor_data)
                    /\ log' = [log EXCEPT ![Len(log)].pos =
                                  Append(@, <<column, Len(output_csv[column + 1]) + 1,
                                              saves>>)]
                    /\ sensor_i' = sensor_i + 1
                    /\ UNCHANGED <<mainPc, abortCause, poisoned, mutex>>
    /\ UNCHANGED <<waitedFor, dropped, device_map, quit, chan, txAlive, sock, arrived, batch,
                   lastErr, hPc, sigPending, sigCount, file, saved, saves>>

\* main.rs:280: the guard goes out of scope at the end of the loop body.
MainUnlock ==
    /\ mainPc = "append"
    /\ sensor_i > Len(batch.sensors)
    /\ mutex' = "free"
    /\ mainPc' = "check"
    /\ UNCHANGED <<waitedFor, dropped, device_map, output_csv, poisoned, quit, chan, txAlive, sock,
                   arrived, batch, sensor_i, lastErr, abortCause, hPc,
                   sigPending, sigCount, file, saved, saves, log>>

\* MainWait without the recv(): main returns as soon as the loop has ended.
MainWait_NoRecv ==
    /\ mainPc = "wait"
    /\ mainPc' = "returning"
    /\ UNCHANGED <<waitedFor, dropped, device_map, output_csv, mutex, poisoned, quit, chan, txAlive,
                   sock, arrived, batch, sensor_i, lastErr, abortCause, hPc,
                   sigPending, sigCount, file, saved, saves, log>>

\* main.rs:281: recv().unwrap() returns a buffered message, panics when the
\* channel is empty and its Sender is gone, and blocks otherwise.
MainWait ==
    /\ mainPc = "wait"
    /\ \/ /\ chan > 0
          /\ chan' = chan - 1
          /\ mainPc' = "returning"
          /\ UNCHANGED abortCause
       \/ /\ chan = 0
          /\ ~txAlive
          /\ mainPc' = "unwinding"
          /\ abortCause' = "disconnected"
          /\ UNCHANGED chan
    /\ UNCHANGED <<waitedFor, dropped, device_map, output_csv, mutex, poisoned, quit, txAlive, sock,
                   arrived, batch, sensor_i, lastErr, hPc, sigPending,
                   sigCount, file, saved, saves, log>>

\* main.rs:282: main returns.  Its locals are dropped in the reverse order of
\* their declaration, the Receiver (main.rs:249) before the socket
\* (main.rs:216), and the process ends when the last is dropped.
MainReturn ==
    /\ mainPc = "returning"
    /\ mainPc' = "exited"
    /\ UNCHANGED <<waitedFor, dropped, device_map, output_csv, mutex, poisoned, quit, chan, txAlive,
                   sock, arrived, batch, sensor_i, lastErr, abortCause, hPc,
                   sigPending, sigCount, file, saved, saves, log>>

\* A panic of the main thread ends the process once the unwinding is done; the
\* unwinding drops main's locals as a return does.
MainAbort ==
    /\ mainPc = "unwinding"
    /\ mainPc' = "panicked"
    /\ UNCHANGED <<waitedFor, dropped, device_map, output_csv, mutex, poisoned, quit, chan, txAlive,
                   sock, arrived, batch, sensor_i, lastErr, abortCause, hPc,
                   sigPending, sigCount, file, saved, saves, log>>

(***************************************************************************)
(* Ctrl-C handler thread: the closure of main.rs:251-256, run once per     *)
(* signal by the thread ctrlc::set_handler starts.                         *)
(***************************************************************************)
HandlerTake ==
    /\ Alive
    /\ hPc = "idle"
    /\ sigPending > 0
    /\ sigPending' = sigPending - 1
    /\ hPc' = "lock"
    /\ waitedFor' = IF mutex = "main" THEN 1 ELSE 0
    /\ UNCHANGED <<dropped, device_map, output_csv, mutex, poisoned, quit, chan, txAlive,
                   sock, arrived, mainPc, batch, sensor_i, lastErr, abortCause,
                   sigCount, file, saved, saves, log>>

\* HandlerLock taking the guard out of a poisoned lock instead of unwrapping.
HandlerLock_IgnoresPoison ==
    /\ Alive
    /\ hPc = "lock"
    /\ mutex = "free"
    /\ mutex' = "handler"
    /\ hPc' = "save"
    /\ waitedFor' = 0
    /\ UNCHANGED <<dropped, device_map, output_csv, poisoned, quit, chan, txAlive, sock,
                   arrived, mainPc, batch, sensor_i, lastErr, abortCause,
                   sigPending, sigCount, file, saved, saves, log>>

\* main.rs:252: ctrl_c_output_csv.lock().unwrap(); a panic of the closure
\* ends the handler thread and drops the Sender it owns.
HandlerLock ==
    /\ Alive
    /\ hPc = "lock"
    /\ mutex = "free"
    /\ IF poisoned
       THEN /\ hPc' = "dead"
            /\ txAlive' = FALSE
            /\ UNCHANGED mutex
       ELSE /\ mutex' = "handler"
            /\ hPc' = "save"
            /\ UNCHANGED txAlive
    /\ waitedFor' = 0
    /\ UNCHANGED <<dropped, device_map, output_csv, poisoned, quit, chan, sock, arrived,
                   mainPc, batch, sensor_i, lastErr, abortCause, sigPending,
                   sigCount, file, saved, saves, log>>

\* main.rs:252 and 78-93, first part: save_file builds the bytes under the
\* guard and fs::write opens output.csv, which truncates it.  opened is
\* whether the open succeeded; when it failed the unwrap panics with the
\* guard held and the file is as it was.
HandlerSave(opened) ==
    /\ Alive
    /\ hPc = "save"
    /\ IF opened
       THEN /\ file' = <<>>
            /\ hPc' = "write"
            /\ UNCHANGED <<mutex, poisoned, txAlive>>
       ELSE /\ mutex' = "free"
            /\ poisoned' = TRUE
            /\ hPc' = "dead"
            /\ txAlive' = FALSE
            /\ UNCHANGED file
    /\ UNCHANGED <<waitedFor, dropped, device_map, output_csv, quit, chan, sock, arrived, mainPc,
                   batch, sensor_i, lastErr, abortCause, sigPending, sigCount,
                   saved, saves, log>>

\* main.rs:93, second part: fs::write writes the bytes to the opened file and
\* save_file returns; the guard is dropped at the end of the statement of
\* main.rs:252.  n and cut tell how far the write got; when it failed the
\* unwrap panics with the guard held and the file holds the bytes written
\* before the failure.
HandlerWriteOf(csv_bytes, n, cut) ==
    /\ Alive
    /\ hPc = "write"
    /\ mutex' = "free"
    /\ CanWrite(csv_bytes, n, cut)
    /\ file' = Written(csv_bytes, n, cut)
    /\ IF n = Len(csv_bytes)
       THEN /\ saved' = output_csv
            /\ saves' = saves + 1
            /\ hPc' = "store"
            /\ UNCHANGED <<poisoned, txAlive>>
       ELSE /\ poisoned' = TRUE
            /\ hPc' = "dead"
            /\ txAlive' = FALSE
            /\ UNCHANGED <<saved, saves>>
    /\ UNCHANGED <<waitedFor, dropped, device_map, output_csv, quit, chan, sock, arrived, mainPc,
                   batch, sensor_i, lastErr, abortCause, sigPending, sigCount,
                   log>>

HandlerWrite(n, cut) == HandlerWriteOf(save_file(output_csv), n, cut)

\* The handler's write with each of its outcomes: the write succeeds, or it
\* fails after one of the first MaxWritten tokens or within the token that
\* follows.  The bytes are computed once for all of them.
HandlerWrites ==
    /\ hPc = "write"
    /\ \E csv_bytes \in {save_file(output_csv)} :
       \E n \in WritePoints(csv_bytes) : \E cut \in BOOLEAN :
           /\ n <= MaxWritten \/ n = Len(csv_bytes)
           /\ HandlerWriteOf(csv_bytes, n, cut)

\* main.rs:254
HandlerStore ==
    /\ Alive
    /\ hPc = "store"
    /\ quit' = TRUE
    /\ hPc' = "send"
    /\ UNCHANGED <<waitedFor, dropped, device_map, output_csv, mutex, poisoned, chan, txAlive, sock,
                   arrived, mainPc, batch, sensor_i, lastErr, abortCause,
                   sigPending, sigCount, file, saved, saves, log>>

\* main.rs:255: send(()).unwrap().  connected is whether the Receiver still
\* exists.  Main drops it while it returns or unwinds, before the process
\* ends, so in these two positions the send may find it or not; before them
\* it exists.  Without it send returns Err, the unwrap panics, and the panic
\* ends the handler thread and drops the Sender.
HandlerSend(connected) ==
    /\ Alive
    /\ hPc = "send"
    /\ mainPc \notin {"returning", "unwinding"} => connected
    /\ IF connected
       THEN /\ chan' = chan + 1
            /\ hPc' = "idle"
            /\ UNCHANGED txAlive
       ELSE /\ hPc' = "dead"
            /\ txAlive' = FALSE
            /\ UNCHANGED chan
    /\ UNCHANGED <<waitedFor, dropped, device_map, output_csv, mutex, poisoned, quit, sock,
                   arrived, mainPc, batch, sensor_i, lastErr, abortCause,
                   sigPending, sigCount, file, saved, saves, log>>

(***************************************************************************)
(* Specifications.                                                         *)
(***************************************************************************)
\* The steps of the main thread.
MainStep ==
    \/ MainCheckQuit
    \/ MainRecvOk
    \/ \E kind \in {"Interrupted", "Other"} : MainRecvErr(kind)
    \/ MainLock
    \/ MainAppend
    \/ MainUnlock
    \/ MainWait
    \/ MainReturn
    \/ MainAbort

\* The steps of the handler thread.
HandlerStep ==
    \/ HandlerTake
    \/ HandlerLock
    \/ \E opened \in BOOLEAN : HandlerSave(opened)
    \/ HandlerWrites
    \/ HandlerStore
    \/ \E connected \in BOOLEAN : HandlerSend(connected)

\* The steps of the ingestion process; none of them touches the declaration
\* line or the state of aggregate().
Ingest ==
    \/ \E p \in PayloadSet : Arrive(p)
    \/ Signal
    \/ MainCheckQuit
    \/ MainRecvOk
    \/ \E kind \in {"Interrupted", "Other"} : MainRecvErr(kind)
    \/ MainLock
    \/ MainAppend
    \/ MainUnlock
    \/ MainWait
    \/ MainReturn
    \/ MainAbort
    \/ HandlerTake
    \/ HandlerLock
    \/ \E opened \in BOOLEAN : HandlerSave(opened)
    \/ HandlerWrites
    \/ HandlerStore
    \/ \E connected \in BOOLEAN : HandlerSend(connected)

Next == Ingest /\ UNCHANGED <<line, aggVars>>

Spec == Init /\ [][Next]_vars

(***************************************************************************)
(* aggregate(), main.rs:96-207.  The source indexes from 0 and the model   *)
(* keeps its indices: At(s, i) is s[i] of the source.  A panic (an unwrap  *)
(* of a failed parse, an index out of range) is None, <<>>, in the         *)
(* operators below and ends the run in the actions.                        *)
(***************************************************************************)
At(s, i) == s[i + 1]

RECURSIVE SplitEach(_, _)
\* lines[row_i].split(sep) of every line.
SplitEach(lines, sep) ==
    IF lines = <<>> THEN <<>>
    ELSE <<Split(Head(lines), sep)>> \o SplitEach(Tail(lines), sep)

\* main.rs:99-111: per column of the header line, the non-empty cells of the
\* lines that hold more than one cell.  row[column_i] panics on a line that
\* holds several cells and fewer than the header line.
fill_array(text) ==
    LET rows == SplitEach(Split(text, "\n"), ",")
        row0 == At(rows, 0)
        Column(column_i) ==
            LET kept == SelectSeq(rows, LAMBDA row :
                            ~(Len(row) = 1 \/ At(row, column_i) = <<>>))
            IN  [k \in 1..Len(kept) |-> At(kept[k], column_i)]
    IN  IF \E row_i \in 1..Len(rows) :
               Len(rows[row_i]) # 1 /\ Len(rows[row_i]) < Len(row0)
        THEN <<>>
        ELSE <<[c \in 1..Len(row0) |-> Column(c - 1)]>>

\* main.rs:115-116 and 120-121: the last cell of a time column minus its
\* cell 1, the header being cell 0.
time_range(column) ==
    IF Len(column) < 2 THEN <<>>
    ELSE LET last == ParseF64(At(column, Len(column) - 1))
             first == ParseF64(At(column, 1))
         IN  IF last = <<>> \/ first = <<>> THEN <<>>
             ELSE <<FSub(last[1], first[1])>>

RECURSIVE smallest_from_LastOnTie(_, _, _)
\* smallest_from with range <= smallest_time_range as the test of main.rs:122.
smallest_from_LastOnTie(cols, column_i5th, best) ==
    IF column_i5th >= Len(cols) \div 5 THEN <<best>>
    ELSE LET range == time_range(At(cols, column_i5th * 5))
         IN  IF range = <<>> THEN <<>>
             ELSE smallest_from_LastOnTie(cols, column_i5th + 1,
                      IF FLe(range[1], best.range)
                      THEN [i5th |-> column_i5th, range |-> range[1]]
                      ELSE best)

RECURSIVE smallest_from(_, _, _)
\* main.rs:118-126: the loop over the device blocks after the first one.
smallest_from(cols, column_i5th, best) ==
    IF column_i5th >= Len(cols) \div 5 THEN <<best>>
    ELSE LET range == time_range(At(cols, column_i5th * 5))
         IN  IF range = <<>> THEN <<>>
             ELSE smallest_from(cols, column_i5th + 1,
                      IF FLt(range[1], best.range)
                      THEN [i5th |-> column_i5th, range |-> range[1]]
                      ELSE best)

\* main.rs:115-126
smallest_time_range(cols) ==
    LET range == time_range(At(cols, 0))
    IN  IF range = <<>> THEN <<>>
        ELSE smallest_from(cols, 1, [i5th |-> 0, range |-> range[1]])

\* main.rs:128-134: a time column and three columns per device block, each as
\* long as the time column of the reference block, header cell included.
new_target_csv(cols, i5th) ==
    [column \in 1..((Len(cols) \div 5) * 3 + 1) |->
        [row \in 1..Len(At(cols, i5th * 5)) |-> R(0, 1)]]

\* target_csv[column][row] = v
Put(t, column, row, v) == [t EXCEPT ![column + 1][row + 1] = v]

\* main.rs:137-151: the target timestamp and the bounds of its window.
window(reference, rt) ==
    LET target == ParseF64(At(reference, rt))
        prev == IF rt > 1 THEN ParseF64(At(reference, rt - 1)) ELSE target
        next == IF rt < Len(reference) - 1 THEN ParseF64(At(reference, rt + 1))
                ELSE target
    IN  IF target = <<>> \/ prev = <<>> \/ next = <<>> THEN <<>>
        ELSE <<[target_timestamp |-> target[1],
                lower_bound |-> FDiv(FAdd(prev[1], target[1]), 2),
                upper_bound |-> FDiv(FAdd(next[1], target[1]), 2)]>>

\* csv[column][row_i] parsed as f64, None when there is no such cell.
parse_cell(column, row_i) ==
    IF row_i >= Len(column) THEN <<>> ELSE ParseF64(At(column, row_i))

RECURSIVE scan_from_StopsBelow(_, _, _, _, _)
\* scan_from with the scan also stopped by a row before the window.
scan_from_StopsBelow(cols, column_i5th, w, row_i, acc) ==
    IF row_i >= Len(At(cols, column_i5th * 5)) THEN <<acc>>
    ELSE LET timestamp == ParseF64(At(At(cols, column_i5th * 5), row_i))
         IN  IF timestamp = <<>> THEN <<>>
             ELSE IF \/ timestamp[1] = w.target_timestamp
                     \/ /\ FLe(w.lower_bound, timestamp[1])
                        /\ FLt(timestamp[1], w.upper_bound)
             THEN LET x == parse_cell(At(cols, column_i5th * 5 + 1), row_i)
                      y == parse_cell(At(cols, column_i5th * 5 + 2), row_i)
                      z == parse_cell(At(cols, column_i5th * 5 + 3), row_i)
                  IN  IF x = <<>> \/ y = <<>> \/ z = <<>> THEN <<>>
                      ELSE scan_from_StopsBelow(cols, column_i5th, w, row_i + 1,
                               [sum_x |-> FAdd(acc.sum_x, x[1]),
                                sum_y |-> FAdd(acc.sum_y, y[1]),
                                sum_z |-> FAdd(acc.sum_z, z[1]),
                                counted |-> acc.counted + 1,
                                rows |-> acc.rows \cup {row_i}])
             ELSE IF \/ FLt(w.upper_bound, timestamp[1])
                     \/ FLt(timestamp[1], w.lower_bound) THEN <<acc>>
             ELSE scan_from_StopsBelow(cols, column_i5th, w, row_i + 1, acc)

RECURSIVE scan_from(_, _, _, _, _)
\* main.rs:159-171: the scan of one device block for one window, from row_i
\* on.  acc holds the sums, the count and the rows counted.
scan_from(cols, column_i5th, w, row_i, acc) ==
    IF row_i >= Len(At(cols, column_i5th * 5)) THEN <<acc>>
    ELSE LET timestamp == ParseF64(At(At(cols, column_i5th * 5), row_i))
         IN  IF timestamp = <<>> THEN <<>>
             ELSE IF \/ timestamp[1] = w.target_timestamp
                     \/ /\ FLe(w.lower_bound, timestamp[1])
                        /\ FLt(timestamp[1], w.upper_bound)
             THEN LET x == parse_cell(At(cols, column_i5th * 5 + 1), row_i)
                      y == parse_cell(At(cols, column_i5th * 5 + 2), row_i)
                      z == parse_cell(At(cols, column_i5th * 5 + 3), row_i)
                  IN  IF x = <<>> \/ y = <<>> \/ z = <<>> THEN <<>>
                      ELSE scan_from(cols, column_i5th, w, row_i + 1,
                               [sum_x |-> FAdd(acc.sum_x, x[1]),
                                sum_y |-> FAdd(acc.sum_y, y[1]),
                                sum_z |-> FAdd(acc.sum_z, z[1]),
                                counted |-> acc.counted + 1,
                                rows |-> acc.rows \cup {row_i}])
             ELSE IF FLt(w.upper_bound, timestamp[1]) THEN <<acc>>
             ELSE scan_from(cols, column_i5th, w, row_i + 1, acc)

\* main.rs:154-171
scan(cols, column_i5th, w) ==
    scan_from(cols, column_i5th, w, 1,
              [sum_x |-> R(0, 1), sum_y |-> R(0, 1), sum_z |-> R(0, 1),
               counted |-> 0, rows |-> {}])

\* main.rs:173-190: the three cells of one device block in one output row.
fill_cells(t, rt, column_i5th, acc) ==
    IF acc.counted = 0
    THEN IF rt > 2
         THEN Put(Put(Put(t,
                  column_i5th * 3 + 1, rt - 1, At(At(t, column_i5th * 3 + 1), rt - 2)),
                  column_i5th * 3 + 2, rt - 1, At(At(t, column_i5th * 3 + 2), rt - 2)),
                  column_i5th * 3 + 3, rt - 1, At(At(t, column_i5th * 3 + 3), rt - 2))
         ELSE t
    ELSE Put(Put(Put(t,
             column_i5th * 3 + 1, rt - 1, FDiv(acc.sum_x, acc.counted)),
             column_i5th * 3 + 2, rt - 1, FDiv(acc.sum_y, acc.counted)),
             column_i5th * 3 + 3, rt - 1, FDiv(acc.sum_z, acc.counted))

RECURSIVE blocks_from(_, _, _, _, _)
\* main.rs:153-191: the loop over the device blocks for one reference row.
\* st holds target_csv and the rows counted so far.
blocks_from(cols, rt, w, column_i5th, st) ==
    IF column_i5th >= Len(cols) \div 5 THEN <<st>>
    ELSE LET acc == scan(cols, column_i5th, w)
         IN  IF acc = <<>> THEN <<>>
             ELSE blocks_from(cols, rt, w, column_i5th + 1,
                      [target_csv |-> fill_cells(st.target_csv, rt, column_i5th, acc[1]),
                       counted_in |-> st.counted_in \cup
                                      { <<rt, column_i5th, row_i>> : row_i \in acc[1].rows }])

\* main.rs:137-191: one turn of the loop over the reference rows.
reference_row(cols, i5th, rt, st) ==
    LET w == window(At(cols, i5th * 5), rt)
    IN  IF w = <<>> THEN <<>>
        ELSE blocks_from(cols, rt, w[1], 0,
                 [st EXCEPT !.target_csv = Put(@, 0, rt - 1, w[1].target_timestamp)])

RECURSIVE Replace(_, _)
\* str::replace(pat, ""): the matches of pat are removed, from left to right.
Replace(s, pat) ==
    IF Len(s) < Len(pat) THEN s
    ELSE IF SubSeq(s, 1, Len(pat)) = pat
    THEN Replace(SubSeq(s, Len(pat) + 1, Len(s)), pat)
    ELSE <<Head(s)>> \o Replace(Tail(s), pat)

\* main.rs:194-204: the bytes handed to fs::write.
aggregated_bytes(text, t) ==
    Replace(At(Split(text, "\n"), 0), <<",", "Time (s)", ",">>) \o <<"\n">>
    \o Concat([row \in 1..Len(At(t, 0)) |->
                  Concat([column \in 1..Len(t) |-> <<FormatF64(t[column][row]), ",">>])
                  \o <<"\n">>])

(***************************************************************************)
(* Inputs of aggregate: the tables output.csv may hold.  A device block is *)
(* [num, name, rows], rows being the <<time, x, y, z>> cells of its data   *)
(* rows; the file holds one line per row up to the longest block.          *)
(***************************************************************************)
Block(num, name, rows) == [num |-> num, name |-> name, rows |-> rows]

\* The five columns of one device block: its header cells, then its rows.
BlockColumns(b) ==
    [c \in 1..5 |->
        HeaderBlock(b.num, b.name)[c]
        \o (IF c = 5 THEN <<>> ELSE [r \in 1..Len(b.rows) |-> b.rows[r][c]])]

TableOf(blocks) == Concat([k \in 1..Len(blocks) |-> BlockColumns(blocks[k])])


LongestColumn(csv) ==
    CHOOSE n \in { Len(csv[c]) : c \in DOMAIN csv } :
        \A c \in DOMAIN csv : Len(csv[c]) <= n

\* The text of a table where no row was cut: the lines of main.rs:81-90 for
\* every row index up to the longest column.
FileOf(cols) ==
    Concat([row \in 1..LongestColumn(cols) |-> SaveRow(cols, row) \o <<"\n">>])

\* Generated blocks: non-decreasing timestamps out of TimeLit, and cells
\* whose sums over up to four rows have exact means.
TimeLit == <<"0", "1", "2">>

SortedTimes(n) ==
    { s \in [1..n -> 1..Len(TimeLit)] : \A i \in 1..(n - 1) : s[i] <= s[i + 1] }

NameOf(k) == <<"a", "b", "c", "d", "e", "f", "g">>[k]

GenRow(k, r, time) ==
    << time,
       IF (k + r) % 2 = 0 THEN "3" ELSE "0",
       IF (k + r) % 2 = 0 THEN "0" ELSE "3",
       IF k % 2 = 1 THEN "3" ELSE "0" >>

\* The blocks of device k with 1 to most rows.
GenBlocks(k, most) ==
    { Block(k, NameOf(k), [r \in 1..Len(s) |-> GenRow(k, r, TimeLit[s[r]])]) :
        s \in UNION { SortedTimes(n) : n \in 1..most } }

RECURSIVE GenTables(_, _)
\* The tables of the devices k, k + 1, .. with at most rows data rows in all,
\* the table without a block included.
GenTables(k, rows) ==
    { <<>> } \cup
    UNION { { <<b>> \o t : t \in GenTables(k + 1, rows - Len(b.rows)) } :
            b \in GenBlocks(k, rows) }

\* Tables written out by hand: the examples of the specification, blocks with
\* decreasing timestamps, a block without rows.
Rows(times, xs, ys, zs) ==
    [r \in 1..Len(times) |-> <<times[r], xs[r], ys[r], zs[r]>>]

WindowExample ==
    << Block(1, "a", Rows(<<"0", "10", "20">>, <<"1", "2", "3">>,
                          <<"0", "0", "0">>, <<"1", "1", "1">>)),
       Block(2, "b", Rows(<<"4", "9", "11">>, <<"1", "1", "2">>,
                          <<"0", "1", "3">>, <<"2", "2", "2">>)) >>

WindowExampleLong ==
    << WindowExample[1],
       Block(2, "b", Rows(<<"4", "9", "11", "30">>, <<"1", "1", "2", "3">>,
                          <<"0", "1", "3", "0">>, <<"2", "2", "2", "2">>)) >>

GapExample ==
    << Block(1, "a", Rows(<<"1", "2">>, <<"1", "2">>, <<"1", "2">>, <<"1", "2">>)),
       Block(2, "b", Rows(<<"0", "1", "3">>, <<"2", "3", "1">>,
                          <<"2", "3", "1">>, <<"2", "3", "1">>)) >>

HandTables ==
    { WindowExample, WindowExampleLong, GapExample,
      << Block(1, "a", Rows(<<"2", "0", "1">>, <<"1", "2", "3">>,
                            <<"1", "2", "3">>, <<"1", "2", "3">>)),
         Block(2, "b", Rows(<<"1", "0">>, <<"1", "2">>, <<"1", "2">>, <<"1", "2">>)) >>,
      << Block(1, "a", Rows(<<"0", "1">>, <<"1", "2">>, <<"1", "2">>, <<"1", "2">>)),
         Block(2, "b", <<>>) >>,
      << Block(1, "a", <<>>) >> }

\* blocks with the cell (row r, field c) of block k replaced by text that is
\* no number.
Corrupt(blocks, k, r, c) ==
    [blocks EXCEPT ![k].rows[r][c] = "x"]

CorruptTables ==
    { Corrupt(GapExample, p[1], p[2], p[3]) :
        p \in { q \in (1..2) \X (1..3) \X (1..4) :
                   q[2] <= Len(GapExample[q[1]].rows) } }

RECURSIVE PushAll(_, _, _)
\* The table of the ingestion loop after it appended the given readings.
PushAll(cols, map, readings) ==
    IF readings = <<>> THEN cols
    ELSE PushAll(PushReading(cols, map[Head(readings).sd.sensor].col,
                             Head(readings).timestamp, Head(readings).sd),
                 map, Tail(readings))

Reading(timestamp, sensor, x, y, z) ==
    [timestamp |-> timestamp, sd |-> [sensor |-> sensor, x |-> x, y |-> y, z |-> z]]

\* Device 1 sends at 0, 1 and 2, device 2 at 0.5 and 1.5; the file is the one
\* save_file writes at the end of such a run.
EndToEnd(order) ==
    LET map == AssignColumns(InsertAll(<<D(1, "a"), D(2, "b")>>), order)
    IN  save_file(PushAll(InitialCsv(map, order), map,
            << Reading(R(0, 1), 1, R(1, 1), R(1, 1), R(1, 1)),
               Reading(R(1, 2), 2, R(2, 1), R(2, 1), R(2, 1)),
               Reading(R(1, 1), 1, R(3, 1), R(3, 1), R(3, 1)),
               Reading(R(3, 2), 2, R(1, 1), R(1, 1), R(1, 1)),
               Reading(R(2, 1), 1, R(2, 1), R(2, 1), R(2, 1)) >>))

\* output.csv as aggregate() finds it: a saved table, or an empty file.
AggInputs ==
    { <<>> } \cup
    { FileOf(TableOf(blocks)) :
        blocks \in (GenTables(1, MaxRows) \ { <<>> })
                    \cup HandTables \cup CorruptTables }
    \cup { EndToEnd(order) : order \in Orders({1, 2}) }

(***************************************************************************)
(* The steps of aggregate().                                               *)
(***************************************************************************)
\* The output_aggregated.csv an earlier run of aggregate left.
EarlierRun == <<"Time (s)", ",", "\n", "0", ",", "\n", "0", ",", "\n">>

\* The files aggregate() starts with: output.csv, and output_aggregated.csv,
\* which does not exist or, with the hand-written tables, is left by an
\* earlier run.
AggStarts ==
    { <<text, <<>>>> : text \in AggInputs }
    \cup { <<FileOf(TableOf(blocks)), <<EarlierRun>>>> : blocks \in HandTables }

\* The variables of the ingestion mode that aggregate() leaves alone; of the
\* main thread's position it changes only the end: main returns when
\* aggregate() has returned (main.rs:212-213), and a panic ends the process.
ingestVars == <<line, waitedFor, dropped, device_map, output_csv, mutex, poisoned, quit, chan,
                txAlive, sock, arrived, batch, sensor_i, lastErr,
                abortCause, hPc, sigPending, sigCount, file, saved, saves, log>>

\* main.rs:211-214: with the argument "aggregate" main calls aggregate() and
\* returns; no socket, registry, table or handler is set up.  output.csv
\* exists and holds one of the input tables.
AggInit ==
    /\ line = <<>>
    /\ device_map = <<>>
    /\ output_csv = <<>>
    /\ mutex = "free"
    /\ poisoned = FALSE
    /\ quit = FALSE
    /\ chan = 0
    /\ txAlive = FALSE
    /\ sock = <<>>
    /\ arrived = 0
    /\ mainPc = "aggregate"
    /\ batch = [sensors |-> <<>>, timestamp |-> R(0, 1)]
    /\ sensor_i = 1
    /\ lastErr = ""
    /\ abortCause = ""
    /\ hPc = "idle"
    /\ sigPending = 0
    /\ sigCount = 0
    /\ \E start \in AggStarts :
           /\ file = start[1]
           /\ aggregated = start[2]
    /\ saved = <<>>
    /\ saves = 0
    /\ log = <<>>
    /\ dropped = [n |-> 0, wellFormed |-> FALSE]
    /\ waitedFor = 0
    /\ aggPc = "load"
    /\ contents = <<>>
    /\ aggCsv = <<>>
    /\ smallest_time_range_i5th = 0
    /\ target_csv = <<>>
    /\ row_target = 0
    /\ counted_in = {}

\* main.rs:97-111.  read is whether fs::read_to_string succeeded; it fails
\* when output.csv does not exist, and the unwrap panics.
AggLoad(read) ==
    /\ aggPc = "load"
    /\ IF ~read
       THEN /\ aggPc' = "panicked"
            /\ mainPc' = "panicked"
            /\ UNCHANGED <<contents, aggCsv>>
       ELSE /\ contents' = file
            /\ LET cols == fill_array(file)
               IN  IF cols = <<>>
                   THEN /\ aggPc' = "panicked"
                        /\ mainPc' = "panicked"
                        /\ UNCHANGED aggCsv
                   ELSE /\ aggPc' = "select"
                        /\ aggCsv' = cols[1]
                        /\ UNCHANGED mainPc
    /\ UNCHANGED <<smallest_time_range_i5th, target_csv, row_target,
                   counted_in, aggregated>>
    /\ UNCHANGED ingestVars

\* main.rs:115-134
AggSelect ==
    /\ aggPc = "select"
    /\ LET best == smallest_time_range(aggCsv)
       IN  IF best = <<>>
           THEN /\ aggPc' = "panicked"
                /\ mainPc' = "panicked"
                /\ UNCHANGED <<smallest_time_range_i5th, target_csv, row_target>>
           ELSE /\ aggPc' = "rows"
                /\ UNCHANGED mainPc
                /\ smallest_time_range_i5th' = best[1].i5th
                /\ target_csv' = new_target_csv(aggCsv, best[1].i5th)
                /\ row_target' = 1
    /\ UNCHANGED <<contents, aggCsv, counted_in, aggregated>>
    /\ UNCHANGED ingestVars

\* main.rs:136-192, one turn of the loop over the rows of the reference block.
AggRow ==
    /\ aggPc = "rows"
    /\ row_target < Len(At(aggCsv, smallest_time_range_i5th * 5))
    /\ LET st == reference_row(aggCsv, smallest_time_range_i5th, row_target,
                               [target_csv |-> target_csv, counted_in |-> counted_in])
       IN  IF st = <<>>
           THEN /\ aggPc' = "panicked"
                /\ mainPc' = "panicked"
                /\ UNCHANGED <<target_csv, counted_in, row_target>>
           ELSE /\ target_csv' = st[1].target_csv
                /\ counted_in' = st[1].counted_in
                /\ row_target' = row_target + 1
                /\ UNCHANGED <<aggPc, mainPc>>
    /\ UNCHANGED <<contents, aggCsv, smallest_time_range_i5th, aggregated>>
    /\ UNCHANGED ingestVars

\* main.rs:194-206 and 212-213, after the last reference row.  opened is
\* whether fs::write could open output_aggregated.csv, n and cut tell how far
\* its write got.  When all bytes are written aggregate() and main return;
\* otherwise the unwrap panics, and the file is as it was when the open
\* failed and holds the bytes written before the failure when the write did.
AggWriteOf(csv_bytes, opened, n, cut) ==
    /\ aggPc = "rows"
    /\ row_target >= Len(At(aggCsv, smallest_time_range_i5th * 5))
    /\ CanWrite(csv_bytes, n, cut)
    /\ opened \/ (n = 0 /\ ~cut)
    /\ aggregated' = IF opened THEN <<Written(csv_bytes, n, cut)>> ELSE aggregated
    /\ IF opened /\ n = Len(csv_bytes)
       THEN /\ aggPc' = "done"
            /\ mainPc' = "exited"
       ELSE /\ aggPc' = "panicked"
            /\ mainPc' = "panicked"
    /\ UNCHANGED <<contents, aggCsv, smallest_time_range_i5th, target_csv,
                   row_target, counted_in>>
    /\ UNCHANGED ingestVars

AggWrite(opened, n, cut) ==
    AggWriteOf(aggregated_bytes(contents, target_csv), opened, n, cut)

\* The write of aggregate() with each of its outcomes: the open fails, or the
\* write succeeds, or it fails after any number of tokens or within the token
\* that follows them.  The bytes are computed once for all of them.
AggWrites ==
    /\ aggPc = "rows"
    /\ row_target >= Len(At(aggCsv, smallest_time_range_i5th * 5))
    /\ \E csv_bytes \in {aggregated_bytes(contents, target_csv)} :
       \E opened, cut \in BOOLEAN : \E n \in WritePoints(csv_bytes) :
           AggWriteOf(csv_bytes, opened, n, cut)

AggNext ==
    \/ \E read \in BOOLEAN : AggLoad(read)
    \/ AggSelect
    \/ AggRow
    \/ AggWrites

AggSpec == AggInit /\ [][AggNext]_vars

(***************************************************************************)
(* What the claims speak about.                                            *)
(***************************************************************************)
\* output.csv holds what the last completed save_file call wrote: no later
\* call has opened it since.
FileWritten == saves > 0 /\ file = save_file(saved)

\* The lines of output.csv: the pieces that end with a newline.
FileLines ==
    LET pieces == Split(file, "\n") IN SubSeq(pieces, 1, Len(pieces) - 1)

\* The bytes of the cell at (row, column) of output.csv, both 1-based;
\* <<>> when the file has no such line, no such cell, or an empty cell there.
FileCell(row, column) ==
    IF row > Len(FileLines) THEN <<>>
    ELSE LET cells == Split(FileLines[row], ",")
         IN  IF column > Len(cells) THEN <<>> ELSE cells[column]

\* The four cells reading k of log entry e was (or would be) rendered to.
CellsOf(e, k) ==
    LET sd == e.batch.sensors[k]
    IN  << FormatF64(e.batch.timestamp), FormatF64(sd.x),
           FormatF64(sd.y), FormatF64(sd.z) >>

\* Cell j (1 = time, 2 = x, 3 = y, 4 = z) of reading k of log entry e is in
\* output.csv, at the place the ingestion loop appended it to.
CellInFile(e, k, j) ==
    /\ k <= Len(e.pos)
    /\ FileCell(e.pos[k][2], e.pos[k][1] + j) = <<CellsOf(e, k)[j]>>

\* The readings of device num among the parsed batches, in arrival order.
RECURSIVE ReadingsOf(_, _)
ReadingsOf(lg, num) ==
    IF lg = <<>> THEN <<>>
    ELSE LET b == Head(lg).batch
             mine == SelectSeq(b.sensors, LAMBDA sd : sd.sensor = num)
         IN  [i \in 1..Len(mine) |->
                 << FormatF64(b.timestamp), FormatF64(mine[i].x),
                    FormatF64(mine[i].y), FormatF64(mine[i].z) >>]
             \o ReadingsOf(Tail(lg), num)

AllDeclared ==
    \A i \in DOMAIN log : \A k \in DOMAIN log[i].batch.sensors :
        log[i].batch.sensors[k].sensor \in DOMAIN device_map

\* The ingestion loop is between two batches: it holds no parsed batch that
\* still waits for the lock or is being appended, and it did not abort.
BetweenBatches == mainPc \in {"check", "recv", "wait", "returning", "exited"}

(***************************************************************************)
(* C1.  No torn writes: the table written by save_file contains, for each  *)
(* received datagram, either every cell (time, x, y, z) of every reading   *)
(* of that datagram or none of them.                                       *)
(***************************************************************************)
C1_NoTornWrites ==
    FileWritten =>
        \A i \in DOMAIN log :
            LET e == log[i]
                cells == (DOMAIN e.batch.sensors) \X (1..4)
            IN  \/ \A c \in cells : CellInFile(e, c[1], c[2])
                \/ \A c \in cells : ~CellInFile(e, c[1], c[2])

(***************************************************************************)
(* C2.  Whatever number of shutdown signals is delivered before the        *)
(* process exits, save_file is executed exactly once: never twice, and     *)
(* once when main has returned.                                            *)
(***************************************************************************)
C2_ExactlyOneSave ==
    /\ saves <= 1
    /\ mainPc = "exited" => saves = 1

(***************************************************************************)
(* C3.  Save before exit: main returns normally only after a save_file     *)
(* call of the shutdown handler has completed.                             *)
(***************************************************************************)
C3_SaveBeforeExit == mainPc = "exited" => saves >= 1

\* main returned after the loop was ended by a receive error, and a save was made.
C3_Witness == mainPc = "exited" /\ lastErr # "" /\ saves >= 1

(***************************************************************************)
\* The steps the main thread takes by itself: all but a failure of the receive.
MainUnprompted ==
    \/ MainCheckQuit
    \/ MainRecvOk
    \/ MainLock
    \/ MainAppend
    \/ MainUnlock
    \/ MainWait
    \/ MainReturn
    \/ MainAbort

\* The steps the handler thread takes by itself: all but a failure of the
\* open or of the write of output.csv.
HandlerUnprompted ==
    \/ HandlerTake
    \/ HandlerLock
    \/ HandlerSave(TRUE)
    \/ /\ hPc = "write"
       /\ \E csv_bytes \in {save_file(output_csv)} :
              HandlerWriteOf(csv_bytes, Len(csv_bytes), FALSE)
    \/ HandlerStore
    \/ \E connected \in BOOLEAN : HandlerSend(connected)

(***************************************************************************)
(* C4.  Once the shutdown flag is set the process ends in every fair       *)
(* execution, even when no datagram arrives any more: as long as the       *)
(* process exists, one of its two threads can take a step without the      *)
(* environment doing anything.                                             *)
(***************************************************************************)
C4_ShutdownTerminates ==
    quit => (~Alive \/ ENABLED (MainUnprompted \/ HandlerUnprompted))

\* The scope of main's guard (main.rs:268-280): main holds the lock only while
\* it appends the one batch it parsed last, never while it is in or about to
\* enter the socket receive, so a handler at its lock() finds the lock free
\* unless a batch is being appended.
GuardScope ==
    /\ mutex = "main" =>
          /\ mainPc = "append"
          /\ log # <<>>
          /\ batch = log[Len(log)].batch
          /\ Len(log[Len(log)].pos) = sensor_i - 1
    /\ mainPc \in {"check", "recv", "lock", "wait"} => mutex # "main"
    /\ (hPc = "lock" /\ mainPc # "append") => mutex = "free"

(***************************************************************************)
(* C5.  The ingestion thread holds the lock only from after a successful   *)
(* parse until the last append of that one batch, never while it is in or  *)
(* about to enter the socket receive; and a handler that requests the lock *)
(* waits for the appends of at most one batch before it gets it: while it  *)
(* is at its lock(), main holds the lock for one batch at most.            *)
(***************************************************************************)
C5_WaitsOneBatch ==
    /\ GuardScope
    /\ hPc = "lock" => waitedFor <= 1

(***************************************************************************)
(* C6.  With all device ids declared and the loop between two batches,     *)
(* each declared device's time, x, y and z columns hold the header and     *)
(* then, row by row, the readings received for that device in arrival      *)
(* order (so all four have length 1 + number of readings), and its spacer  *)
(* column holds its header alone.                                          *)
(***************************************************************************)
C6_ColumnsFollowArrival ==
    (AllDeclared /\ BetweenBatches) =>
        \A num \in DOMAIN device_map :
            \* rs, the device's readings, and hdr, its header cells, are bound
            \* as the one element of a set, which computes each once.
            \E rs \in {ReadingsOf(log, num)} :
            \E hdr \in {HeaderBlock(num, device_map[num].name)} :
                LET col == device_map[num].col
                IN  /\ \A j \in 1..4 :
                          /\ Len(output_csv[col + j]) = 1 + Len(rs)
                          /\ output_csv[col + j][1] = hdr[j][1]
                          /\ \A i \in 1..Len(rs) : output_csv[col + j][i + 1] = rs[i][j]
                    /\ output_csv[col + 5] = hdr[5]

\* Two devices are declared, one of them got two readings, the other one.
C6_Witness ==
    /\ AllDeclared
    /\ mainPc = "recv"
    /\ mutex = "free"
    /\ \E a, b \in DOMAIN device_map :
          Len(ReadingsOf(log, a)) = 2 /\ Len(ReadingsOf(log, b)) = 1

(***************************************************************************)
(* C7.  A reading of an undeclared device is fatal: from then on nothing   *)
(* is appended to the buffer, no save takes place, the main thread only    *)
(* finishes its panic, and the process ends.                               *)
(***************************************************************************)
C7_UndeclaredIsFatal ==
    /\ [][abortCause = "undeclared" =>
            /\ output_csv' = output_csv
            /\ saves' = saves
            /\ file' = file
            /\ mainPc' \in {"unwinding", "panicked"}]_vars
    /\ [](abortCause = "undeclared" => (mainPc = "panicked" \/ ENABLED MainAbort))

\* The datagram's first reading was appended, its second was undeclared, and
\* the handler, asked to save afterwards, died on the poisoned lock.
C7_Witness ==
    /\ abortCause = "undeclared"
    /\ mainPc = "panicked"
    /\ log[Len(log)].pos # <<>>
    /\ hPc = "dead"
    /\ sigCount = 1
    /\ saves = 0

(***************************************************************************)
(* C8.  When the receive fails with ErrorKind::Interrupted and no shutdown *)
(* was requested, the ingestion loop goes on: it does not leave the loop   *)
(* to wait for the end of the process.                                     *)
(***************************************************************************)
C8_InterruptedContinues ==
    (lastErr = "Interrupted" /\ sigCount = 0) => mainPc # "wait"

(***************************************************************************)
(* C9.  A receive error other than an interruption is fatal: nothing is    *)
(* appended afterwards and the process ends without waiting for a shutdown *)
(* signal: until it has ended, the main thread can take its next step      *)
(* without the environment or the handler doing anything.                  *)
(***************************************************************************)
C9_FatalErrorTerminates ==
    /\ [][lastErr = "Other" => output_csv' = output_csv]_vars
    /\ [](lastErr = "Other" => (~Alive \/ ENABLED MainUnprompted))

(***************************************************************************)
(* C10.  save_file writes one line per row index up to the last row of the *)
(* longest column, whichever column that is, so every cell of the table    *)
(* is in the output.                                                       *)
(***************************************************************************)
C10_AllRowsSaved ==
    FileWritten =>
        /\ Len(FileLines) = LongestColumn(saved)
        /\ \A c \in DOMAIN saved : \A row \in DOMAIN saved[c] :
              FileCell(row, c) = CellBytes(saved[c][row])

(***************************************************************************)
(* What the claims about datagrams speak about.                            *)
(***************************************************************************)
\* The payload without its whitespace.
Unspaced(p) == SelectSeq(p, LAMBDA t : t \notin White)

\* What parse_sensor_batch returns for each well-formed payload once its
\* whitespace is removed.
UnspacedBatch == [p \in WellFormed |-> parse_sensor_batch(Unspaced(p))]

\* The step in which the loop takes the oldest datagram from the socket.
Receives == mainPc = "recv" /\ sock # <<>> /\ sock' = Tail(sock)

(***************************************************************************)
(* C15.  For a well-formed payload with N device groups, whitespace around *)
(* any field, the timestamp included, parse_sensor_batch yields a batch    *)
(* with N readings, the same batch as for the payload without whitespace.  *)
(***************************************************************************)
C15_WhitespaceIgnored ==
    [][ (Receives /\ Head(sock) \in WellFormed) =>
            /\ mainPc' = "lock"
            /\ <<batch'>> = UnspacedBatch[Head(sock)]
            /\ Len(batch'.sensors) = (Len(Split(Head(sock), ",")) - 1) \div 4 ]_vars

(***************************************************************************)
(* C16.  A malformed datagram (timestamp or a reading field that is no     *)
(* number, or a number of fields after the timestamp that is no multiple   *)
(* of 4) is dropped as a whole: the step that receives it changes no       *)
(* column of the table, appends nothing and takes no lock, and the loop    *)
(* goes on to its next turn.                                               *)
(***************************************************************************)
C16_MalformedDropped ==
    [][ (Receives /\ Head(sock) \notin WellFormed) =>
            /\ output_csv' = output_csv
            /\ log' = log
            /\ mutex' = mutex
            /\ batch' = batch
            /\ mainPc' = "check" ]_vars

\* A malformed datagram was dropped, the only one dropped so far, and a
\* well-formed one received after it has been appended.
C16_Witness ==
    /\ mainPc = "check"
    /\ dropped.n = 1
    /\ ~dropped.wellFormed
    /\ \E i \in DOMAIN log :
           /\ log[i].after = 1
           /\ Len(log[i].pos) = Len(log[i].batch.sensors)
           /\ Len(log[i].pos) >= 1

(***************************************************************************)
(* What the claims about aggregate speak about: the device blocks of the   *)
(* table it read.  Blocks and rows are numbered as in the source: block    *)
(* 0 is the first one, row 0 of a block is its header, row 1 its first     *)
(* valid sample.                                                           *)
(***************************************************************************)
NumBlocks == Len(aggCsv) \div 5

\* The time cells of block k: the header first, then the valid samples.
TimeColumn(k) == At(aggCsv, k * 5)

\* Number of valid samples of block k.
Samples(k) == Len(TimeColumn(k)) - 1

\* The timestamp of sample r (1-based) of block k.
TimeOf(k, r) == ParseF64(At(TimeColumn(k), r))[1]

\* Last valid timestamp of block k minus its first one.
SpanOf(k) == FSub(TimeOf(k, Samples(k)), TimeOf(k, 1))

\* aggregate has chosen its reference block.
Selected == aggPc \in {"rows", "done"}

(***************************************************************************)
(* C11.  The reference block aggregate selects has the smallest span of    *)
(* all device blocks, wherever it stands in the table, and it is the first *)
(* in column order of the blocks that have this span.                      *)
(***************************************************************************)
C11_ReferenceSelection ==
    Selected =>
        \A k \in 0..(NumBlocks - 1) :
            /\ FLe(SpanOf(smallest_time_range_i5th), SpanOf(k))
            /\ SpanOf(k) = SpanOf(smallest_time_range_i5th)
                   => smallest_time_range_i5th <= k

\* Three blocks, the first one with a larger span and the two others with the
\* same smallest span: the second block is the reference.
C11_Witness ==
    /\ aggPc = "done"
    /\ NumBlocks = 3
    /\ smallest_time_range_i5th = 1
    /\ SpanOf(2) = SpanOf(1)
    /\ FLt(SpanOf(1), SpanOf(0))

\* Every time cell of the table is a number and the timestamps of each device
\* block are non-decreasing.
NonDecreasing ==
    /\ \A k \in 0..(NumBlocks - 1) : \A r \in 1..Samples(k) :
           ParseF64(At(TimeColumn(k), r)) # <<>>
    /\ \A k \in 0..(NumBlocks - 1) : \A i, j \in 1..Samples(k) :
           i < j => FLe(TimeOf(k, i), TimeOf(k, j))

\* The reference timestamp of output row r (1-based) and the bounds of its
\* window: the midpoints with the neighbouring reference timestamps, a missing
\* neighbour being replaced by the timestamp itself.
RefTime(r) == TimeOf(smallest_time_range_i5th, r)

LowerOf(r) ==
    FDiv(FAdd(IF r > 1 THEN RefTime(r - 1) ELSE RefTime(r), RefTime(r)), 2)

UpperOf(r) ==
    FDiv(FAdd(IF r < Samples(smallest_time_range_i5th) THEN RefTime(r + 1)
              ELSE RefTime(r), RefTime(r)), 2)

\* The samples of block k that qualify for output row r.
Qualifying(k, r) ==
    { i \in 1..Samples(k) :
        \/ TimeOf(k, i) = RefTime(r)
        \/ FLe(LowerOf(r), TimeOf(k, i)) /\ FLt(TimeOf(k, i), UpperOf(r)) }

\* Cell c (1 = x, 2 = y, 3 = z) of sample i of block k.
ValueOf(k, i, c) == ParseF64(At(At(aggCsv, k * 5 + c), i))[1]

RECURSIVE SumOf(_, _, _)
SumOf(k, rows, c) ==
    IF rows = {} THEN R(0, 1)
    ELSE LET i == CHOOSE i \in rows : TRUE
         IN  FAdd(ValueOf(k, i, c), SumOf(k, rows \ {i}, c))

MeanOf(k, rows, c) == FDiv(SumOf(k, rows, c), Cardinality(rows))

\* Cell c of block k in output row r, and the time cell of output row r.
OutCell(k, r, c) == At(At(target_csv, k * 3 + c), r - 1)
OutTime(r) == At(At(target_csv, 0), r - 1)

\* The output rows aggregate has filled so far.
RowsDone == 1..(row_target - 1)

\* For the given input, the output has a row at time 10 that holds for the
\* second block the means of its samples at 9 and 11 (x 1 and 2, y 1 and 3,
\* z 2 and 2), and a row at time 0 that holds its sample at 4.
WindowExampleHolds(text) ==
    (aggPc = "done" /\ contents = text) =>
        \E r0, r10 \in 1..Len(At(target_csv, 0)) :
            /\ OutTime(r0) = R(0, 1)
            /\ <<OutCell(1, r0, 1), OutCell(1, r0, 2), OutCell(1, r0, 3)>>
                   = <<R(1, 1), R(0, 1), R(2, 1)>>
            /\ OutTime(r10) = R(10, 1)
            /\ <<OutCell(1, r10, 1), OutCell(1, r10, 2), OutCell(1, r10, 3)>>
                   = <<R(3, 2), R(2, 1), R(2, 1)>>

\* In every output row, a device block with qualifying samples holds their
\* means, and the scan counted exactly the qualifying samples.
MeansOverWindows ==
    (Selected /\ NonDecreasing) =>
        \A r \in RowsDone : \A k \in 0..(NumBlocks - 1) :
            Qualifying(k, r) # {} =>
                /\ \A c \in 1..3 : OutCell(k, r, c) = MeanOf(k, Qualifying(k, r), c)
                /\ { t[3] : t \in { u \in counted_in : u[1] = r /\ u[2] = k } }
                       = Qualifying(k, r)

(***************************************************************************)
(* C12.  With non-decreasing timestamps in every device block, each output *)
(* row holds, for each device block with at least one sample that equals   *)
(* the reference timestamp or lies between the midpoints to the            *)
(* neighbouring reference timestamps (lower one included), the means of    *)
(* x, y and z over exactly these samples; the early stop of the scan omits *)
(* none.  As stated: with the reference [0,10,20] and samples [4,9,11],    *)
(* 9 and 11 are averaged into the row at 10 and 4 goes to the row at 0.    *)
(***************************************************************************)
C12_WindowMeans_Stated ==
    MeansOverWindows /\ WindowExampleHolds(FileOf(TableOf(WindowExample)))

\* C12 as it holds: the example needs samples that span no less than the
\* reference, [4,9,11,30], or the samples are the reference themselves.
C12_WindowMeans ==
    MeansOverWindows /\ WindowExampleHolds(FileOf(TableOf(WindowExampleLong)))

\* A block other than the reference has two samples in the window of a
\* reference row that has both neighbours, and a later sample behind the
\* window, where the scan stops.
C12_Witness ==
    /\ aggPc = "done"
    /\ NonDecreasing
    /\ \E r \in 2..(Samples(smallest_time_range_i5th) - 1) :
       \E k \in 0..(NumBlocks - 1) :
           /\ k # smallest_time_range_i5th
           /\ Cardinality(Qualifying(k, r)) >= 2
           /\ \E i \in 1..Samples(k) : FLt(UpperOf(r), TimeOf(k, i))
           /\ OutCell(k, r, 1) # ValueOf(k, CHOOSE i \in Qualifying(k, r) : TRUE, 1)

(***************************************************************************)
(* C13.  Carry-forward: in an output row in whose window a device block    *)
(* has no sample, the block's x, y and z are those of the previous output  *)
(* row, for every output row but the first (the second included), and zero *)
(* in the first output row.                                                *)
(***************************************************************************)
C13_CarryForward ==
    (Selected /\ NonDecreasing) =>
        \A r \in RowsDone : \A k \in 0..(NumBlocks - 1) :
            Qualifying(k, r) = {} =>
                \A c \in 1..3 :
                    OutCell(k, r, c) = IF r > 1 THEN OutCell(k, r - 1, c) ELSE R(0, 1)

\* The lines of output_aggregated.csv: the header line, then the data rows.
OutLines ==
    LET pieces == Split(aggregated[1], "\n") IN SubSeq(pieces, 1, Len(pieces) - 1)

\* The cells of data row r (1-based) of output_aggregated.csv, each followed
\* by a comma in the file.
OutRow(r) ==
    LET cells == Split(OutLines[r + 1], ",") IN SubSeq(cells, 1, Len(cells) - 1)

(***************************************************************************)
(* C14.  The aggregated table written has exactly one data row per valid   *)
(* sample of the reference block; data row r holds the r-th reference      *)
(* timestamp and then three cells per device block.  For the run where     *)
(* device 1 sends at 0, 1, 2 and device 2 at 0.5, 1.5, it has exactly two  *)
(* data rows.                                                              *)
(***************************************************************************)
C14_OneRowPerSample ==
    aggPc = "done" =>
        /\ Len(OutLines) - 1 = Samples(smallest_time_range_i5th)
        /\ \A r \in 1..Samples(smallest_time_range_i5th) :
               /\ r + 1 <= Len(OutLines)
               /\ Len(OutRow(r)) = 1 + 3 * NumBlocks
               /\ OutRow(r)[1] = <<FormatF64(RefTime(r))>>
        /\ contents \in { EndToEnd(order) : order \in Orders({1, 2}) }
               => Len(OutLines) - 1 = 2

\* A data cell of the loaded table (time, x, y or z of a device, below the
\* header) is no floating-point number.
HasUnparsableCell ==
    \E column_i \in 0..(Len(aggCsv) - 1) :
        /\ column_i % 5 # 4
        /\ \E row_i \in 1..(Len(At(aggCsv, column_i)) - 1) :
               ParseF64(At(At(aggCsv, column_i), row_i)) = <<>>

(***************************************************************************)
(* C17.  Aggregation is all-or-nothing: when any data cell of the input    *)
(* table is no floating-point number the run aborts, and no aggregated     *)
(* table is written.                                                       *)
(***************************************************************************)
C17_AllOrNothing ==
    HasUnparsableCell => (aggPc # "done" /\ aggregated \in {<<>>, <<EarlierRun>>})

(***************************************************************************)
(* C18.  With distinct ids, the k-th declared device (from 0, in the order *)
(* of entry) has column offset 5*k and its header block stands there in    *)
(* the live table; the offsets are distinct multiples of 5 and the table   *)
(* has 5 columns per registered device.                                    *)
(***************************************************************************)
C18_RegistrationOrder ==
    /\ \A k \in DOMAIN line :
           /\ device_map[line[k].num].col = 5 * (k - 1)
           /\ output_csv[5 * (k - 1) + 2][1]
                  = HeaderBlock(line[k].num, line[k].name)[2][1]
    /\ \A i, j \in DOMAIN device_map :
           /\ device_map[i].col % 5 = 0
           /\ i # j => device_map[i].col # device_map[j].col
    /\ Len(output_csv) = 5 * Cardinality(DOMAIN device_map)

(***************************************************************************)
(* C19.  No reading is lost after the save: once the shutdown handler has  *)
(* written the table, the ingestion loop appends nothing more, so the      *)
(* table that was written holds every reading that was ever appended.      *)
(***************************************************************************)
C19_NothingLostAfterSave == saves >= 1 => saved = output_csv

(***************************************************************************)
(* C20.  Windows do not overlap: with non-decreasing timestamps in every   *)
(* device block, repeated reference timestamps included, no sample row of  *)
(* a device is counted in the windows of two reference rows.               *)
(***************************************************************************)
C20_WindowsDisjoint ==
    (Selected /\ NonDecreasing) =>
        \A u, v \in counted_in :
            (u[2] = v[2] /\ u[3] = v[3]) => u[1] = v[1]

====
